---- MODULE Spec2Model ----
(***************************************************************************)
(* The typed EventEmitter of evtemitter (src/unnamed/part_010, lines 1 to  *)
(* 697): a registry __listeners__ that maps, per event name, every         *)
(* callback the caller passed to the callback really handed to the         *)
(* EventTarget the class extends, and the listener list of that            *)
(* EventTarget.  Every method is one action; emit runs the whole dispatch. *)
(***************************************************************************)
EXTENDS Integers, Sequences, FiniteSets, TLC

\* Event names, caller callbacks and payloads the operations are tried with.
Names == {"foo", "bar"}
Fns == {"f", "g"}
Details == {"x", "y"}
\* The shapes of the name argument of on / once / off: one name or an array.
TypeLists == {<<"foo">>, <<"bar">>, <<"foo", "bar">>}
\* The values of options.capture the operations are tried with (FALSE: the
\* option is left out).
Captures == {FALSE}

\* The names of ReservedEvents, which the signature of emit, dispatch and
\* publish does not take, and those of UserEvents.
ReservedNames == {"bar"}
UserNames == Names \ ReservedNames

\* Closures and listener objects created over the life of the emitter.
MaxIds == 2
\* Calls of pull over the life of the emitter.
MaxPulls == 2
\* The timeouts pull is called with, in milliseconds (0: none), and the
\* milliseconds the clock is followed for after a call of pull.
PullTimeouts == {0, 2}
MaxAge == 2

VARIABLES
    listeners,  \* __listeners__: name -> NoMap or the name's Map of callbacks
    target,     \* the EventTarget's listener list, per event name
    pulls,      \* the promises made by pull, with their timers
    nextId,     \* the next fresh closure / listener identity
    options,    \* an options object the caller keeps and passes to its calls
    calls,      \* the callbacks the last operation invoked, in order
    last,       \* the last operation: an emit with its arguments, or another
    reg,        \* history: how each callback was registered for each name
    waited      \* history: what each pull has seen happen since it was called

vars == <<listeners, target, pulls, nextId, options, calls, last, reg, waited>>

----------------------------------------------------------------------------
\* Values

\* The entry of a name in __listeners__: has is FALSE when the name has no
\* Map (Map.get returns undefined), else map holds the name's Map.
NoMap == [has |-> FALSE, map |-> <<>>]
NewMap == [has |-> TRUE, map |-> <<>>]

\* A callback the caller owns: a function of Fns, or the closure pull makes.
UserCb(f) == [src |-> "user", fn |-> f, n |-> 0]
PullCb(k) == [src |-> "pull", fn |-> "callback", n |-> k]
UserCbs == {UserCb(f) : f \in Fns}
\* The caller's callback that is subscribed to the name type and whose body
\* calls the function this subscribe(type, callback) returned.
CancelCb(type) == [src |-> "cancel", fn |-> type, n |-> 0]

\* Callbacks whose body calls the emitter that is invoking them, with the
\* name of the event they are invoked for.  ReaderCb reads getListeners(type);
\* AgainCb(method) registers itself again with on(type, self) or
\* once(type, self); RemoverCb(how, f) removes the callback f with
\* off(type, f) or removeEventListener(type, f); AdderCb(f) calls on(type, f).
ReaderCb == [src |-> "reader", fn |-> "getListeners", n |-> 0]
AgainCb(method) == [src |-> "again", fn |-> method, n |-> 0]
RemoverCb(how, f) == [src |-> how, fn |-> f, n |-> 0]
AdderCb(f) == [src |-> "adder", fn |-> f, n |-> 0]
\* The callback whose body calls emit(type, detail) with the name it is
\* invoked for and the payload it was given.
EmitterCb == [src |-> "emitter", fn |-> "emit", n |-> 0]
\* The callback whose body throws.
ThrowerCb == [src |-> "thrower", fn |-> "throw", n |-> 0]

\* A function handed to the EventTarget: the caller's callback itself (id 0)
\* or a closure around it.  detail: it passes event.detail instead of the
\* event; selfRemove: it calls removeEventListener(type, key) after the call.
Raw(key) ==
    [id |-> 0, key |-> key, detail |-> FALSE, selfRemove |-> FALSE, type |-> ""]

\* A wrapper that hands the callback the event instead of its detail.
passWholeEvent(key, id) ==
    [id |-> id, key |-> key, detail |-> FALSE, selfRemove |-> FALSE, type |-> ""]

passOnlyDetail(key, id) ==
    [id |-> id, key |-> key, detail |-> TRUE, selfRemove |-> FALSE, type |-> ""]

\* A one-shot wrapper that does not take the callback out of __listeners__.
callWithoutRemoving(type, callbackToCall, callbackToRemove, id) ==
    [id |-> id, key |-> callbackToRemove, detail |-> callbackToCall.detail,
     selfRemove |-> FALSE, type |-> type]

removeAfterOneInvocation(type, callbackToCall, callbackToRemove, id) ==
    [id |-> id, key |-> callbackToRemove, detail |-> callbackToCall.detail,
     selfRemove |-> TRUE, type |-> type]

\* The CustomEvent built by createEvent, and what a callback is called with.
createEvent(type, detail) == [kind |-> "event", type |-> type, detail |-> detail]
DetailOf(event) == [kind |-> "detail", type |-> "", detail |-> event.detail]
\* The value of a promise that has none.
NoValue == [kind |-> "none", type |-> "", detail |-> ""]

----------------------------------------------------------------------------
\* Sequences

RECURSIVE SelectSeqBy(_, _)
\* The subsequence of s whose indexes are not in drop.
SelectSeqBy(s, drop) ==
    IF s = <<>> THEN <<>>
    ELSE LET n == Len(s)
             rest == SelectSeqBy(SubSeq(s, 1, n - 1), drop)
         IN IF n \in drop THEN rest ELSE Append(rest, s[n])

Range(s) == {s[i] : i \in 1..Len(s)}

----------------------------------------------------------------------------
\* The inner Map of __listeners__: insertion-ordered <<key, value>> entries

MapHas(m, key) == \E i \in 1..Len(m) : m[i].key = key

MapGet(m, key) == m[CHOOSE i \in 1..Len(m) : m[i].key = key].value

\* Map.set: a present key keeps its place and takes the new value.
MapSet(m, key, value) ==
    IF MapHas(m, key)
    THEN [i \in 1..Len(m) |->
            IF m[i].key = key THEN [key |-> key, value |-> value] ELSE m[i]]
    ELSE Append(m, [key |-> key, value |-> value])

MapDelete(m, key) == SelectSeqBy(m, {i \in 1..Len(m) : m[i].key = key})

MapKeys(m) == [i \in 1..Len(m) |-> m[i].key]

getOrCreateListeners(L, type) ==
    IF ~L[type].has THEN [L EXCEPT ![type] = NewMap] ELSE L

----------------------------------------------------------------------------
\* The EventTarget the class extends (super.addEventListener,
\* super.removeEventListener): a listener is a callback with its capture and
\* once flags; callback and capture identify it.

TargetHas(T, type, cb, capture) ==
    \E i \in 1..Len(T[type]) :
        T[type][i].cb = cb /\ T[type][i].capture = capture

TargetAdd(T, type, cb, capture, once, lid) ==
    IF TargetHas(T, type, cb, capture) THEN T
    ELSE [T EXCEPT ![type] =
            Append(@, [cb |-> cb, capture |-> capture, once |-> once, lid |-> lid])]

TargetRemove(T, type, cb, capture) ==
    [T EXCEPT ![type] =
        SelectSeqBy(@, {i \in 1..Len(@) : @[i].cb = cb /\ @[i].capture = capture})]

TargetRemoveLid(T, type, lid) ==
    [T EXCEPT ![type] = SelectSeqBy(@, {i \in 1..Len(@) : @[i].lid = lid})]

----------------------------------------------------------------------------
\* The methods, as functions of the emitter's state
\* st = [listeners, target, pulls, calls, fresh, thrown, reports]; fresh is
\* the identity the next closure or listener made takes; thrown: an exception
\* is on its way up to the caller; reports: what the EventTarget of the
\* platform does with an exception of a listener (TRUE: it reports the
\* exception and goes on with the next listener, as the DOM standard says;
\* FALSE: it lets the exception through to the caller of dispatchEvent).

\* An addEventListener that does not look at options.once.
addEventListenerIgnoringOnce(st, type, callback, capture, once, id) ==
    LET T == TargetAdd(st.target, type, Raw(callback), capture, FALSE, id)
        L == getOrCreateListeners(st.listeners, type)
    IN [st EXCEPT !.target = T,
                  !.listeners = [L EXCEPT ![type].map = MapSet(@, callback, Raw(callback))]]

addEventListener(st, type, callback, capture, once, id) ==
    LET withOnce == IF once
                    THEN removeAfterOneInvocation(type, Raw(callback), callback, id)
                    ELSE Raw(callback)
        T == TargetAdd(st.target, type, withOnce, capture, once, id)
        L == getOrCreateListeners(st.listeners, type)
    IN [st EXCEPT !.target = T,
                  !.listeners = [L EXCEPT ![type].map = MapSet(@, callback, withOnce)]]

\* addCallback of on, for one name.
addCallback(st, type, callback, capture, once, detailOnly, id) ==
    LET withOnce == IF once
                    THEN removeAfterOneInvocation(type, detailOnly, callback, id)
                    ELSE detailOnly
        T == TargetAdd(st.target, type, withOnce, capture, once, id)
        L == getOrCreateListeners(st.listeners, type)
    IN [st EXCEPT !.target = T,
                  !.listeners = [L EXCEPT ![type].map = MapSet(@, callback, withOnce)]]

\* A forEach that stops after the first name.
onFirstOnly(st, types, callback, capture, once, detailOnly, id) ==
    IF types = <<>> THEN st
    ELSE addCallback(st, Head(types), callback, capture, once, detailOnly, id)

RECURSIVE onEach(_, _, _, _, _, _, _)
\* types.forEach(addCallback); the closures made for the names take the
\* identities id, id + 1, ...
onEach(st, types, callback, capture, once, detailOnly, id) ==
    IF types = <<>> THEN st
    ELSE onEach(addCallback(st, Head(types), callback, capture, once, detailOnly, id),
                Tail(types), callback, capture, once, detailOnly, id + 1)

on(st, types, callback, capture, once, id) ==
    onEach(st, types, callback, capture, once, passOnlyDetail(callback, id), id)

\* A once that registers the callback to last.
onceRegisteringToLast(st, types, callback, capture, id) ==
    on(st, types, callback, capture, FALSE, id)

\* once sets options.once and calls on.
once(st, types, callback, capture, id) == on(st, types, callback, capture, TRUE, id)

\* once(types, callback, options) with the options object the caller keeps:
\* options ||= {} leaves the object, Object.assign(options, {once: true})
\* writes once into that very object and returns it, and on gets it.
onceWithOptions(st, types, callback, id) ==
    LET assigned == [st EXCEPT !.options.once = TRUE]
    IN on(assigned, types, callback, assigned.options.capture, assigned.options.once, id)

\* on(types, callback, options) with the options object the caller keeps.
onWithOptions(st, types, callback, id) ==
    on(st, types, callback, st.options.capture, st.options.once, id)

\* A removal that takes every listener of the name along with the one asked.
removeEveryListener(st, type, callback, capture) ==
    IF st.listeners[type].has /\ MapHas(st.listeners[type].map, callback)
    THEN [st EXCEPT !.target[type] = <<>>, !.listeners[type].map = <<>>]
    ELSE st

\* A removal that forgets the Map of the name when the callback is not in it.
removeEventListenerOrForgetName(st, type, callback, capture) ==
    IF st.listeners[type].has /\ MapHas(st.listeners[type].map, callback)
    THEN LET realCb == MapGet(st.listeners[type].map, callback)
         IN [st EXCEPT !.target = TargetRemove(@, type, realCb, capture),
                       !.listeners[type].map = MapDelete(@, callback)]
    ELSE [st EXCEPT !.listeners[type] = NoMap]

removeEventListener(st, type, callback, capture) ==
    IF st.listeners[type].has /\ MapHas(st.listeners[type].map, callback)
    THEN LET realCb == MapGet(st.listeners[type].map, callback)
         IN [st EXCEPT !.target = TargetRemove(@, type, realCb, capture),
                       !.listeners[type].map = MapDelete(@, callback)]
    ELSE st

RECURSIVE removeEach(_, _, _, _)
\* map.forEach((_value, callback) => doRemove(type, callback)) over the keys.
removeEach(st, type, keys, capture) ==
    IF keys = <<>> THEN st
    ELSE removeEach(removeEventListener(st, type, Head(keys), capture),
                    type, Tail(keys), capture)

\* removeAllForOneType of off.
removeAllForOneType(st, type, capture) ==
    LET removed == IF ~st.listeners[type].has THEN st
                   ELSE removeEach(st, type, MapKeys(st.listeners[type].map), capture)
    IN [removed EXCEPT !.listeners[type] = NoMap]

RECURSIVE removeAllForTypes(_, _, _)
removeAllForTypes(st, types, capture) ==
    IF types = <<>> THEN st
    ELSE removeAllForTypes(removeAllForOneType(st, Head(types), capture),
                           Tail(types), capture)

RECURSIVE removeAll(_, _, _)
\* this.__listeners__.forEach over the names still to visit, then clear().
removeAll(st, todo, capture) ==
    IF todo = {} THEN [st EXCEPT !.listeners = [n \in Names |-> NoMap]]
    ELSE LET type == CHOOSE n \in todo : TRUE
             removed == IF ~st.listeners[type].has THEN st
                        ELSE removeEach(st, type, MapKeys(st.listeners[type].map), capture)
         IN removeAll(removed, todo \ {type}, capture)

RECURSIVE doRemoveTypes(_, _, _, _)
\* types.forEach((type) => doRemove(type)) with the callback given to off.
doRemoveTypes(st, types, callback, capture) ==
    IF types = <<>> THEN st
    ELSE doRemoveTypes(removeEventListener(st, Head(types), callback, capture),
                       Tail(types), callback, capture)

\* The types argument of off: left out, one name, or an array of names.
NoTypes == [given |-> FALSE, array |-> FALSE, names |-> <<>>]
OneType(n) == [given |-> TRUE, array |-> FALSE, names |-> <<n>>]
TypeArray(ns) == [given |-> TRUE, array |-> TRUE, names |-> ns]

\* The test "types" of off's case analysis: undefined and the empty string
\* are falsy, every other string and every array is truthy.
Truthy(types) == types.given /\ (types.array \/ types.names[1] # "")

\* off(types?, callback?, options?); hasTypes / hasCallback: the tests "types"
\* and "callback" of the case analysis.  The unknown case throws and changes
\* nothing.
offThrows(hasTypes, hasCallback) == ~hasTypes /\ hasCallback

\* An off that empties the registry and leaves the EventTarget as it is.
offRegistryOnly(st, hasTypes, types, hasCallback, callback, capture) ==
    [st EXCEPT !.listeners = [n \in Names |-> NoMap]]

off(st, hasTypes, types, hasCallback, callback, capture) ==
    IF ~hasTypes /\ ~hasCallback THEN removeAll(st, Names, capture)
    ELSE IF hasTypes /\ ~hasCallback THEN removeAllForTypes(st, types, capture)
    ELSE IF hasTypes /\ hasCallback THEN doRemoveTypes(st, types, callback, capture)
    ELSE st

\* subscribe(type, callback, options) is on(type, callback, options); the
\* function it returns calls off(type, callback).
subscribe(st, type, callback, capture, id) ==
    on(st, <<type>>, callback, capture, FALSE, id)

cleanup(st, type, callback) == off(st, TRUE, <<type>>, TRUE, callback, FALSE)

\* getListeners(type): the keys of the name's Map, as a set.
getListenersOfType(L, type) ==
    IF ~L[type].has THEN {} ELSE Range(MapKeys(L[type].map))

\* getListeners(): the names that have a Map, each with its set of keys.
getListeners(L) ==
    [n \in {m \in Names : L[m].has} |-> getListenersOfType(L, n)]

----------------------------------------------------------------------------
\* Dispatch

\* A closure of pull that stops the timer and does not resolve.
pullCallbackClearOnly(st, k, arg) ==
    [st EXCEPT !.pulls[k].timer = IF @ = "armed" THEN "cleared" ELSE @]

\* A closure of pull that resolves and leaves the timer running.
pullCallbackKeepTimer(st, k, arg) ==
    [st EXCEPT !.pulls[k] =
        [@ EXCEPT !.state = IF @ = "pending" THEN "fulfilled" ELSE @,
                  !.value = IF st.pulls[k].state = "pending" THEN arg ELSE @]]

\* The body of the closure pull registers: timeoutId && clearTimeout(timeoutId);
\* resolve(detail).  A settled promise stays as it is.
pullCallback(st, k, arg) ==
    [st EXCEPT !.pulls[k] =
        [@ EXCEPT !.timer = IF @ = "armed" THEN "cleared" ELSE @,
                  !.state = IF st.pulls[k].state = "pending" THEN "fulfilled" ELSE @,
                  !.value = IF st.pulls[k].state = "pending" THEN arg ELSE @]]

\* A caller's callback runs for an event of the name type: it is recorded,
\* pull's closure settles, the callback that cancels its subscription calls
\* the function subscribe returned, and a callback whose body calls the
\* emitter makes its call (the reader is recorded with what getListeners(type)
\* returned to it (saw) and, for the record only, with the callbacks behind
\* the EventTarget's listeners of the name at that moment (listed); a
\* registration takes the next fresh identity).
RECURSIVE emit(_, _, _)
Call(st, key, arg, type) ==
    LET logged == [st EXCEPT !.calls = Append(@, [fn |-> key, arg |-> arg])]
    IN IF key.src = "user" THEN logged
       ELSE IF key.src = "pull" THEN pullCallback(logged, key.n, arg)
       ELSE IF key.src = "cancel" THEN cleanup(logged, key.fn, key)
       ELSE IF key.src = "reader"
       THEN [st EXCEPT !.calls =
                Append(@, [fn |-> key, arg |-> arg,
                           saw |-> getListenersOfType(st.listeners, type),
                           listed |-> {st.target[type][i].cb.key :
                                          i \in 1..Len(st.target[type])}])]
       ELSE IF key.src = "again"
       THEN [on(logged, <<type>>, key, FALSE, key.fn = "once", logged.fresh)
                EXCEPT !.fresh = @ + 1]
       ELSE IF key.src = "adder"
       THEN [on(logged, <<type>>, UserCb(key.fn), FALSE, FALSE, logged.fresh)
                EXCEPT !.fresh = @ + 1]
       ELSE IF key.src = "emitter" THEN emit(logged, type, arg.detail)
       ELSE IF key.src = "thrower" THEN [logged EXCEPT !.thrown = TRUE]
       ELSE IF key.src = "off"
       THEN off(logged, TRUE, <<type>>, TRUE, UserCb(key.fn), FALSE)
       ELSE IF key.src = "removeEventListener"
       THEN removeEventListener(logged, type, UserCb(key.fn), FALSE)
       ELSE logged

\* A function registered with the EventTarget that calls its callback twice.
InvokeTwice(st, cb, event) ==
    LET arg == IF cb.detail THEN DetailOf(event) ELSE event
        called == Call(Call(st, cb.key, arg, event.type), cb.key, arg, event.type)
    IN IF cb.selfRemove
       THEN removeEventListener(called, cb.type, cb.key, FALSE)
       ELSE called

\* The function registered with the EventTarget runs; an exception of the
\* callback leaves the wrapper before its removeEventListener.
Invoke(st, cb, event) ==
    LET called == Call(st, cb.key, IF cb.detail THEN DetailOf(event) ELSE event,
                       event.type)
    IN IF cb.selfRemove /\ ~called.thrown
       THEN removeEventListener(called, cb.type, cb.key, FALSE)
       ELSE called

RECURSIVE invokeListenersBackwards(_, _, _)
\* A walk of the listener list from its end.
invokeListenersBackwards(st, snapshot, event) ==
    IF snapshot = <<>> THEN st
    ELSE LET l == snapshot[Len(snapshot)]
             present == \E i \in 1..Len(st.target[event.type]) :
                            st.target[event.type][i].lid = l.lid
             st1 == IF l.once
                    THEN [st EXCEPT !.target = TargetRemoveLid(@, event.type, l.lid)]
                    ELSE st
         IN invokeListenersBackwards(IF present THEN Invoke(st1, l.cb, event) ELSE st,
                                     SubSeq(snapshot, 1, Len(snapshot) - 1), event)

RECURSIVE invokeListenersOfSnapshot(_, _, _)
\* A walk that also calls the listeners removed since the dispatch started.
invokeListenersOfSnapshot(st, snapshot, event) ==
    IF snapshot = <<>> THEN st
    ELSE LET l == Head(snapshot)
             st1 == IF l.once
                    THEN [st EXCEPT !.target = TargetRemoveLid(@, event.type, l.lid)]
                    ELSE st
         IN invokeListenersOfSnapshot(Invoke(st1, l.cb, event), Tail(snapshot), event)

RECURSIVE invokeListeners(_, _, _)
\* The EventTarget walks a copy of the listener list taken when the dispatch
\* starts; a listener removed meanwhile is skipped, a once listener is taken
\* off the list before its callback runs.  When a listener throws, the walk
\* goes on after the exception is reported, or ends with the exception.
invokeListeners(st, snapshot, event) ==
    IF snapshot = <<>> THEN st
    ELSE LET l == Head(snapshot)
             present == \E i \in 1..Len(st.target[event.type]) :
                            st.target[event.type][i].lid = l.lid
             st1 == IF l.once
                    THEN [st EXCEPT !.target = TargetRemoveLid(@, event.type, l.lid)]
                    ELSE st
             invoked == IF present THEN Invoke(st1, l.cb, event) ELSE st
         IN IF ~invoked.thrown THEN invokeListeners(invoked, Tail(snapshot), event)
            ELSE IF invoked.reports
            THEN invokeListeners([invoked EXCEPT !.thrown = FALSE],
                                 Tail(snapshot), event)
            ELSE invoked

\* A dispatch that goes to the listeners of a reserved name whatever the type
\* of the event.
dispatchEventAsReserved(st, event) ==
    LET r == CHOOSE n \in ReservedNames : TRUE
    IN invokeListeners(st, st.target[r], [event EXCEPT !.type = r])

\* The listeners of a list registered with capture, and those without.
Capturing(list) == SelectSeq(list, LAMBDA l : l.capture)
NotCapturing(list) == SelectSeq(list, LAMBDA l : ~l.capture)

\* The event is dispatched at the emitter itself: the EventTarget walks the
\* listeners registered with capture, then, on a copy taken at that moment,
\* those registered without.
dispatchEvent(st, event) ==
    LET captured == invokeListeners(st, Capturing(st.target[event.type]), event)
    IN IF captured.thrown THEN captured
       ELSE invokeListeners(captured, NotCapturing(captured.target[event.type]),
                            event)

_emit(st, type, detail) == dispatchEvent(st, createEvent(type, detail))

\* An emit that dispatches nothing.
emitToNobody(st, type, detail) == st

emit(st, type, detail) == _emit(st, type, detail)

\* dispatch = this.emit and publish = this.emit.
dispatch(st, type, detail) == emit(st, type, detail)

\* A publish that delivers nothing.
publishToNobody(st, type, detail) == st

publish(st, type, detail) == emit(st, type, detail)

\* An emitReserved that delivers nothing.
emitReservedToNobody(st, type, detail) == st

emitReserved(st, type, detail) == _emit(st, type, detail)

emitUntyped(st, type, detail) == dispatchEvent(st, createEvent(type, detail))

\* A pull that registers the closure of the first pull instead of its own.
pullSharingCallback(st, type, timed, k, id) ==
    LET registered == once(st, <<type>>, PullCb(1), FALSE, id)
    IN [registered EXCEPT !.pulls =
          Append(@, [type |-> type, timed |-> timed,
                     timer |-> IF timed THEN "armed" ELSE "none",
                     state |-> "pending", value |-> NoValue])]

\* pull: the k-th promise; its closure is registered with once, and a timer
\* is started when a timeout is given.
pull(st, type, timed, k, id) ==
    LET registered == once(st, <<type>>, PullCb(k), FALSE, id)
    IN [registered EXCEPT !.pulls =
          Append(@, [type |-> type, timed |-> timed,
                     timer |-> IF timed THEN "armed" ELSE "none",
                     state |-> "pending", value |-> NoValue])]

\* A timer handler that does not reject.
timeoutHandlerClearOnly(st, k) == [st EXCEPT !.pulls[k].timer = "fired"]

\* The handler of pull's timer: clearTimeout(timeoutId); reject(...).
timeoutHandler(st, k) ==
    [st EXCEPT !.pulls[k] =
        [@ EXCEPT !.timer = "fired",
                  !.state = IF @ = "pending" THEN "rejected" ELSE @]]

----------------------------------------------------------------------------
\* The EventEmitter of src/EventEmitter.ts, an earlier revision of the class:
\* on wraps the callback with detailPasser, once only sets options.once for
\* the EventTarget, and off(types) walks the values of the name's Map.

detailPasser(callback, id) ==
    [id |-> id, key |-> callback, detail |-> TRUE, selfRemove |-> FALSE, type |-> ""]

addEventListenerEarly(st, type, callback, capture, isOnce, id) ==
    LET T == TargetAdd(st.target, type, Raw(callback), capture, isOnce, id)
        L == getOrCreateListeners(st.listeners, type)
    IN [st EXCEPT !.target = T,
                  !.listeners = [L EXCEPT ![type].map = MapSet(@, callback, Raw(callback))]]

addCallbackEarly(st, type, callback, capture, isOnce, detailOnly, lid) ==
    LET T == TargetAdd(st.target, type, detailOnly, capture, isOnce, lid)
        L == getOrCreateListeners(st.listeners, type)
    IN [st EXCEPT !.target = T,
                  !.listeners = [L EXCEPT ![type].map = MapSet(@, callback, detailOnly)]]

RECURSIVE onEachEarly(_, _, _, _, _, _, _)
onEachEarly(st, types, callback, capture, isOnce, detailOnly, lid) ==
    IF types = <<>> THEN st
    ELSE onEachEarly(addCallbackEarly(st, Head(types), callback, capture, isOnce,
                                      detailOnly, lid),
                     Tail(types), callback, capture, isOnce, detailOnly, lid + 1)

onEarly(st, types, callback, capture, isOnce, id) ==
    onEachEarly(st, types, callback, capture, isOnce, detailPasser(callback, id), id)

onceEarly(st, types, callback, capture, id) ==
    onEarly(st, types, callback, capture, TRUE, id)

removeEventListenerEarly(st, type, callback, capture) ==
    IF st.listeners[type].has /\ MapHas(st.listeners[type].map, callback)
    THEN LET realCb == MapGet(st.listeners[type].map, callback)
         IN [st EXCEPT !.target = TargetRemove(@, type, realCb, capture),
                       !.listeners[type].map = MapDelete(@, callback)]
    ELSE st

\* doRemove(type, listener) with a value of the Map: a value that is the
\* caller's callback itself is a key of the Map, a closure around it is not.
doRemoveValueEarly(st, type, value) ==
    IF value = Raw(value.key)
    THEN removeEventListenerEarly(st, type, value.key, FALSE)
    ELSE st

RECURSIVE removeValuesEarly(_, _, _)
\* listeners?.forEach(listener => doRemove(type, listener)).
removeValuesEarly(st, type, values) ==
    IF values = <<>> THEN st
    ELSE removeValuesEarly(doRemoveValueEarly(st, type, Head(values)),
                           type, Tail(values))

removeAllForOneTypeEarly(st, type) ==
    LET values == [i \in 1..Len(st.listeners[type].map) |->
                      st.listeners[type].map[i].value]
        removed == IF ~st.listeners[type].has THEN st
                   ELSE removeValuesEarly(st, type, values)
    IN [removed EXCEPT !.listeners[type] = NoMap]

RECURSIVE removeAllForTypesEarly(_, _)
removeAllForTypesEarly(st, types) ==
    IF types = <<>> THEN st
    ELSE removeAllForTypesEarly(removeAllForOneTypeEarly(st, Head(types)), Tail(types))

RECURSIVE removeEachEarly(_, _, _)
removeEachEarly(st, type, keys) ==
    IF keys = <<>> THEN st
    ELSE removeEachEarly(removeEventListenerEarly(st, type, Head(keys), FALSE),
                         type, Tail(keys))

RECURSIVE removeAllEarly(_, _)
removeAllEarly(st, todo) ==
    IF todo = {} THEN [st EXCEPT !.listeners = [n \in Names |-> NoMap]]
    ELSE LET type == CHOOSE n \in todo : TRUE
             removed == IF ~st.listeners[type].has THEN st
                        ELSE removeEachEarly(st, type, MapKeys(st.listeners[type].map))
         IN removeAllEarly(removed, todo \ {type})

RECURSIVE doRemoveTypesEarly(_, _, _)
doRemoveTypesEarly(st, types, callback) ==
    IF types = <<>> THEN st
    ELSE doRemoveTypesEarly(removeEventListenerEarly(st, Head(types), callback, FALSE),
                            Tail(types), callback)

offEarly(st, hasTypes, types, hasCallback, callback) ==
    IF ~hasTypes /\ ~hasCallback THEN removeAllEarly(st, Names)
    ELSE IF hasTypes /\ ~hasCallback THEN removeAllForTypesEarly(st, types)
    ELSE IF hasTypes /\ hasCallback THEN doRemoveTypesEarly(st, types, callback)
    ELSE st

dispatchEventEarly(st, event) == invokeListeners(st, st.target[event.type], event)

emitEarly(st, type, detail) == dispatchEventEarly(st, createEvent(type, detail))

----------------------------------------------------------------------------
\* UntypedEventEmitter (src/unnamed/part_007) and the ReservedEventEmitter of
\* src/ReservedEventEmitter.ts that extends it: on hands the EventTarget the
\* detailPasser closure and keeps, in the Map, the onceRemover closure made
\* around it; getListeners lists the values of the Map.

detailPasserUntyped(callback, id) ==
    [id |-> id, key |-> callback, detail |-> TRUE, selfRemove |-> FALSE, type |-> ""]

\* onceRemover(type, callback): calls callback, then
\* this.removeEventListener(type, callback), which finds an entry only when
\* callback is itself a key of the Map, that is not a closure of detailPasser.
onceRemoverUntyped(type, callback, id) ==
    [id |-> id, key |-> callback.key, detail |-> callback.detail,
     selfRemove |-> (callback = Raw(callback.key)), type |-> type]

addCallbackUntyped(st, type, callback, capture, isOnce, detailOnly, id) ==
    LET withOnce == IF isOnce THEN onceRemoverUntyped(type, detailOnly, id)
                    ELSE detailOnly
        T == TargetAdd(st.target, type, detailOnly, capture, isOnce, id)
        L == getOrCreateListeners(st.listeners, type)
    IN [st EXCEPT !.target = T,
                  !.listeners = [L EXCEPT ![type].map = MapSet(@, callback, withOnce)]]

RECURSIVE onEachUntyped(_, _, _, _, _, _, _)
onEachUntyped(st, types, callback, capture, isOnce, detailOnly, id) ==
    IF types = <<>> THEN st
    ELSE onEachUntyped(addCallbackUntyped(st, Head(types), callback, capture, isOnce,
                                          detailOnly, id),
                       Tail(types), callback, capture, isOnce, detailOnly, id + 1)

onUntyped(st, types, callback, capture, isOnce, id) ==
    onEachUntyped(st, types, callback, capture, isOnce,
                  detailPasserUntyped(callback, id), id)

\* ReservedEventEmitter.once(type, listener) is super.once(type, listener),
\* which sets options.once on a new options object and calls on.
onceUntyped(st, types, callback, id) ==
    onUntyped(st, types, callback, FALSE, TRUE, id)

\* The statements of the removeEventListener of part_010.
removeEventListenerUntyped(st, type, callback, capture) ==
    removeEventListener(st, type, callback, capture)

\* The statements of the off of part_010, except that doRemove calls
\* this.removeEventListener(type, cb) without options.
offUntyped(st, hasTypes, types, hasCallback, callback) ==
    off(st, hasTypes, types, hasCallback, callback, FALSE)

emitOfUntyped(st, type, detail) == dispatchEvent(st, createEvent(type, detail))

\* ReservedEventEmitter.emit and ReservedEventEmitter.emitReserved are
\* super.emit.
emitOfReserved(st, type, detail) == emitOfUntyped(st, type, detail)
emitReservedOfReserved(st, type, detail) == emitOfUntyped(st, type, detail)

\* pull(type, timeout?): the closure is registered with once; when a timeout
\* is given, setTimeout is called with the handler and without delay, so the
\* timer runs out after 0 milliseconds.  age: the milliseconds since the
\* call; rejectedAt: the age at which the promise was rejected (-1: it was
\* not).
pullUntyped(st, type, timeout, k, id) ==
    LET registered == onceUntyped(st, <<type>>, PullCb(k), id)
    IN [registered EXCEPT !.pulls =
          Append(@, [type |-> type, timed |-> timeout # 0,
                     timer |-> IF timeout # 0 THEN "armed" ELSE "none",
                     state |-> "pending", value |-> NoValue,
                     timeout |-> timeout, delay |-> 0, age |-> 0,
                     rejectedAt |-> -1])]

\* The handler of the timer of the k-th pull.
timeoutHandlerUntyped(st, k) ==
    [timeoutHandler(st, k) EXCEPT !.pulls[k].rejectedAt =
        IF st.pulls[k].state = "pending" THEN st.pulls[k].age ELSE @]

\* A millisecond goes by.
tick(st) ==
    [st EXCEPT !.pulls = [k \in 1..Len(@) |->
        [@[k] EXCEPT !.age = IF @ < MaxAge THEN @ + 1 ELSE @]]]

\* getListeners(type): the values of the Map of the name, as a set.
getListenersOfTypeUntyped(L, type) ==
    IF ~L[type].has THEN {}
    ELSE {L[type].map[i].value : i \in 1..Len(L[type].map)}

----------------------------------------------------------------------------
\* The state machine

State == [listeners |-> listeners, target |-> target, pulls |-> pulls,
          calls |-> <<>>, fresh |-> nextId, thrown |-> FALSE, reports |-> TRUE,
          options |-> options]

NoCb == [src |-> "none", fn |-> "", n |-> 0]

OtherOp == [op |-> "other", type |-> "", detail |-> ""]
EmitOp(type, detail) == [op |-> "emit", type |-> type, detail |-> detail]
\* An emit through another entry point: dispatch, publish, dispatchEvent,
\* emitReserved or emitUntyped.
EmitBy(op, type, detail) == [op |-> op, type |-> type, detail |-> detail]

\* History of a callback on a name: never registered; registered exactly once,
\* by the named method, and not removed since (emits: for a one-shot
\* registration, the emits of the name since then, counted up to 2); removed
\* and not registered since (state: the removal); or registered otherwise,
\* with a registration that lasts until removed among those still there.
Never == [state |-> "never", emits |-> 0]
Single(method) == [state |-> method, emits |-> 0]
Other == [state |-> "other", emits |-> 0]

\* Registered otherwise, and every registration that is still there is a
\* one-shot one (emits: 1 once the name has been emitted since).
OtherOnce == [state |-> "otherOnce", emits |-> 0]

\* A registration that lasts until it is removed is still there.
LivePersistent(r) == r.state \in {"on", "addEventListener", "subscribe", "other"}

Registered(method, types, key) ==
    [n \in Names |-> [f \in Fns |->
        IF n \in Range(types) /\ UserCb(f) = key
        THEN IF reg[n][f] = Never THEN Single(method)
             ELSE IF method \in {"on", "addEventListener", "subscribe"}
                     \/ LivePersistent(reg[n][f])
                  THEN Other
                  ELSE OtherOnce
        ELSE reg[n][f]]]

\* A removal (how: "removeEventListener", "off" with the callback, "offTypes"
\* with names only, "offAll" without arguments) that names or covers the
\* callbacks keys on the names of typeSet.
Removed(how, typeSet, keys) ==
    [n \in Names |-> [f \in Fns |->
        IF n \in typeSet /\ UserCb(f) \in keys /\ reg[n][f] # Never
        THEN [state |-> how, emits |-> 0]
        ELSE reg[n][f]]]

Emitted(type) ==
    [n \in Names |-> [f \in Fns |->
        IF n = type /\ reg[n][f].state \in {"once", "addEventListenerOnce"}
        THEN [reg[n][f] EXCEPT !.emits = IF @ < 2 THEN @ + 1 ELSE @]
        ELSE IF n = type /\ reg[n][f].state = "otherOnce"
        THEN [reg[n][f] EXCEPT !.emits = 1]
        ELSE reg[n][f]]]

\* History of a pull: nothing has happened to its name since the call, or
\* the first thing that happened: an emit (with its payload), an off that
\* covers the name, or the timer running out.
Waiting == [first |-> "nothing", detail |-> ""]

WaitedAfter(what, typeSet, detail) ==
    [k \in 1..Len(waited) |->
        IF waited[k] = Waiting /\ pulls[k].type \in typeSet
        THEN [first |-> what, detail |-> detail]
        ELSE waited[k]]

Becomes(st, ids, history, pullHistory) ==
    /\ listeners' = st.listeners
    /\ target' = st.target
    /\ pulls' = st.pulls
    /\ calls' = st.calls
    /\ nextId' = st.fresh + ids
    /\ options' = st.options
    /\ reg' = history
    /\ waited' = pullHistory

Init ==
    /\ listeners = [n \in Names |-> NoMap]
    /\ target = [n \in Names |-> <<>>]
    /\ pulls = <<>>
    /\ nextId = 1
    /\ options = [capture |-> FALSE, once |-> FALSE]
    /\ calls = <<>>
    /\ last = OtherOp
    /\ reg = [n \in Names |-> [f \in Fns |-> Never]]
    /\ waited = <<>>

AddEventListener ==
    \E type \in Names, callback \in UserCbs, capture \in Captures, o \in BOOLEAN :
        /\ nextId <= MaxIds
        /\ last' = OtherOp
        /\ Becomes(addEventListener(State, type, callback, capture, o, nextId), 1,
                   Registered(IF o THEN "addEventListenerOnce" ELSE "addEventListener",
                              <<type>>, callback),
                   waited)

On ==
    \E types \in TypeLists, callback \in UserCbs, capture \in Captures :
        /\ nextId + Len(types) - 1 <= MaxIds
        /\ last' = OtherOp
        /\ Becomes(on(State, types, callback, capture, FALSE, nextId), Len(types),
                   Registered("on", types, callback), waited)

Once ==
    \E types \in TypeLists, callback \in UserCbs, capture \in Captures :
        /\ nextId + Len(types) - 1 <= MaxIds
        /\ last' = OtherOp
        /\ Becomes(once(State, types, callback, capture, nextId), Len(types),
                   Registered("once", types, callback), waited)

RemoveEventListener ==
    \E type \in Names, callback \in UserCbs, capture \in Captures :
        /\ last' = OtherOp
        /\ Becomes(removeEventListener(State, type, callback, capture), 0,
                   Removed("removeEventListener", {type}, {callback}), waited)

OffAll ==
    /\ last' = OtherOp
    /\ Becomes(off(State, FALSE, <<>>, FALSE, NoCb, FALSE), 0,
               Removed("offAll", Names, UserCbs), WaitedAfter("off", Names, ""))

OffTypes ==
    \E types \in TypeLists :
        /\ last' = OtherOp
        /\ Becomes(off(State, TRUE, types, FALSE, NoCb, FALSE), 0,
                   Removed("offTypes", Range(types), UserCbs),
                   WaitedAfter("off", Range(types), ""))

OffCallback ==
    \E types \in TypeLists, callback \in UserCbs, capture \in Captures :
        /\ last' = OtherOp
        /\ Becomes(off(State, TRUE, types, TRUE, callback, capture), 0,
                   Removed("off", Range(types), {callback}), waited)

Emit ==
    \E type \in Names, detail \in Details :
        /\ emit(State, type, detail).fresh <= MaxIds + 1
        /\ last' = EmitOp(type, detail)
        /\ Becomes(emit(State, type, detail), 0,
                   Emitted(type), WaitedAfter("emit", {type}, detail))

Pull ==
    \E type \in Names, timed \in BOOLEAN :
        /\ nextId <= MaxIds
        /\ Len(pulls) < MaxPulls
        /\ last' = OtherOp
        /\ Becomes(pull(State, type, timed, Len(pulls) + 1, nextId), 1,
                   reg, Append(waited, Waiting))

\* The timer of the k-th pull runs out.
Timeout ==
    \E k \in 1..Len(pulls) :
        /\ pulls[k].timer = "armed"
        /\ last' = OtherOp
        /\ Becomes(timeoutHandler(State, k), 0, reg,
                   [waited EXCEPT ![k] =
                       IF @ = Waiting THEN [first |-> "timeout", detail |-> ""] ELSE @])

Next ==
    \/ AddEventListener
    \/ On
    \/ Once
    \/ RemoveEventListener
    \/ OffAll
    \/ OffTypes
    \/ OffCallback
    \/ Emit

Spec == Init /\ [][Next]_vars

\* The pull bridge next to plain listeners: f is registered with on for one
\* name.
PullOn ==
    \E type \in Names :
        /\ nextId <= MaxIds
        /\ last' = OtherOp
        /\ Becomes(on(State, <<type>>, UserCb("f"), FALSE, FALSE, nextId), 1,
                   Registered("on", <<type>>, UserCb("f")), waited)

NextPull ==
    \/ Pull
    \/ Timeout
    \/ Emit
    \/ OffAll
    \/ OffTypes
    \/ PullOn

SpecPull == Init /\ [][NextPull]_vars

\* Subscriptions: callbacks are registered with subscribe only, and the
\* function a subscribe(type, f) returned is called by the holder or, for the
\* callbacks that cancel their subscription, from the callback.
Subscribe ==
    \E type \in Names, capture \in Captures :
        \E callback \in UserCbs \cup {CancelCb(type)} :
            /\ nextId <= MaxIds
            /\ last' = OtherOp
            /\ Becomes(subscribe(State, type, callback, capture, nextId), 1,
                       Registered("subscribe", <<type>>, callback), waited)

Cleanup ==
    \E type \in Names, f \in Fns :
        /\ reg[type][f] # Never
        /\ last' = OtherOp
        /\ Becomes(cleanup(State, type, UserCb(f)), 0,
                   Removed("cleanup", {type}, {UserCb(f)}), waited)

NextSubscribe ==
    \/ Subscribe
    \/ Cleanup
    \/ Emit

SpecSubscribe == Init /\ [][NextSubscribe]_vars

\* An emitter with reserved events: every holder may listen to every name and
\* emit, dispatch or publish the names of UserEvents and hand dispatchEvent
\* any event; the extending class calls emitReserved and emitUntyped.
PublicEmit ==
    \E type \in UserNames, detail \in Details :
        /\ last' = EmitOp(type, detail)
        /\ Becomes(emit(State, type, detail), 0,
                   Emitted(type), WaitedAfter("emit", {type}, detail))

Dispatch ==
    \E type \in UserNames, detail \in Details :
        /\ last' = EmitBy("dispatch", type, detail)
        /\ Becomes(dispatch(State, type, detail), 0,
                   Emitted(type), WaitedAfter("emit", {type}, detail))

Publish ==
    \E type \in UserNames, detail \in Details :
        /\ last' = EmitBy("publish", type, detail)
        /\ Becomes(publish(State, type, detail), 0,
                   Emitted(type), WaitedAfter("emit", {type}, detail))

DispatchEvent ==
    \E type \in Names, detail \in Details :
        /\ last' = EmitBy("dispatchEvent", type, detail)
        /\ Becomes(dispatchEvent(State, createEvent(type, detail)), 0,
                   Emitted(type), WaitedAfter("emit", {type}, detail))

EmitReserved ==
    \E type \in ReservedNames, detail \in Details :
        /\ last' = EmitBy("emitReserved", type, detail)
        /\ Becomes(emitReserved(State, type, detail), 0,
                   Emitted(type), WaitedAfter("emit", {type}, detail))

EmitUntyped ==
    \E type \in Names, detail \in Details :
        /\ last' = EmitBy("emitUntyped", type, detail)
        /\ Becomes(emitUntyped(State, type, detail), 0,
                   Emitted(type), WaitedAfter("emit", {type}, detail))

NextReserved ==
    \/ On
    \/ Once
    \/ AddEventListener
    \/ Pull
    \/ PublicEmit
    \/ Dispatch
    \/ Publish
    \/ DispatchEvent
    \/ EmitReserved
    \/ EmitUntyped

SpecReserved == Init /\ [][NextReserved]_vars

\* The entry points whose signature takes a name of UserEvents, next to
\* emitReserved.
NextTyped ==
    \/ On
    \/ Once
    \/ AddEventListener
    \/ Pull
    \/ PublicEmit
    \/ Dispatch
    \/ Publish
    \/ EmitReserved

SpecTyped == Init /\ [][NextTyped]_vars

\* The entry points that take a name of UserEvents, next to dispatchEvent.
NextAliases ==
    \/ On
    \/ Once
    \/ AddEventListener
    \/ PublicEmit
    \/ Dispatch
    \/ Publish
    \/ DispatchEvent

SpecAliases == Init /\ [][NextAliases]_vars

\* The EventEmitter of src/EventEmitter.ts.
AddEventListenerEarly ==
    \E type \in Names, callback \in UserCbs, o \in BOOLEAN :
        /\ nextId <= MaxIds
        /\ last' = OtherOp
        /\ Becomes(addEventListenerEarly(State, type, callback, FALSE, o, nextId), 1,
                   Registered(IF o THEN "addEventListenerOnce" ELSE "addEventListener",
                              <<type>>, callback),
                   waited)

OnEarly ==
    \E types \in TypeLists, callback \in UserCbs :
        /\ nextId + Len(types) - 1 <= MaxIds
        /\ last' = OtherOp
        /\ Becomes(onEarly(State, types, callback, FALSE, FALSE, nextId), Len(types),
                   Registered("on", types, callback), waited)

OnceEarly ==
    \E types \in TypeLists, callback \in UserCbs :
        /\ nextId + Len(types) - 1 <= MaxIds
        /\ last' = OtherOp
        /\ Becomes(onceEarly(State, types, callback, FALSE, nextId), Len(types),
                   Registered("once", types, callback), waited)

OffAllEarly ==
    /\ last' = OtherOp
    /\ Becomes(offEarly(State, FALSE, <<>>, FALSE, NoCb), 0,
               Removed("offAll", Names, UserCbs), waited)

OffTypesEarly ==
    \E types \in TypeLists :
        /\ last' = OtherOp
        /\ Becomes(offEarly(State, TRUE, types, FALSE, NoCb), 0,
                   Removed("offTypes", Range(types), UserCbs), waited)

OffCallbackEarly ==
    \E types \in TypeLists, callback \in UserCbs :
        /\ last' = OtherOp
        /\ Becomes(offEarly(State, TRUE, types, TRUE, callback), 0,
                   Removed("off", Range(types), {callback}), waited)

EmitEarly ==
    \E type \in Names, detail \in Details :
        /\ last' = EmitOp(type, detail)
        /\ Becomes(emitEarly(State, type, detail), 0, Emitted(type), waited)

NextEarly ==
    \/ AddEventListenerEarly
    \/ OnEarly
    \/ OnceEarly
    \/ OffAllEarly
    \/ OffTypesEarly
    \/ OffCallbackEarly
    \/ EmitEarly

SpecEarly == Init /\ [][NextEarly]_vars

\* Registrations with and without the option capture, and the removals that
\* are called without options.
OnCapture ==
    \E type \in Names, callback \in UserCbs, capture \in BOOLEAN :
        /\ nextId <= MaxIds
        /\ last' = OtherOp
        /\ Becomes(on(State, <<type>>, callback, capture, FALSE, nextId), 1,
                   Registered("on", <<type>>, callback), waited)

SubscribeCapture ==
    \E type \in Names, callback \in UserCbs, capture \in BOOLEAN :
        /\ nextId <= MaxIds
        /\ last' = OtherOp
        /\ Becomes(subscribe(State, type, callback, capture, nextId), 1,
                   Registered("subscribe", <<type>>, callback), waited)

\* off(type, callback, options) with the option capture.
OffCallbackCapture ==
    \E type \in Names, callback \in UserCbs :
        /\ last' = OtherOp
        /\ Becomes(off(State, TRUE, <<type>>, TRUE, callback, TRUE), 0,
                   Removed("off", {type}, {callback}), waited)

NextCapture ==
    \/ OnCapture
    \/ SubscribeCapture
    \/ OffAll
    \/ OffTypes
    \/ OffCallback
    \/ OffCallbackCapture
    \/ Cleanup
    \/ Emit

SpecCapture == Init /\ [][NextCapture]_vars

\* The ReservedEventEmitter of src/ReservedEventEmitter.ts.
OnUntyped ==
    \E types \in TypeLists, callback \in UserCbs :
        /\ nextId + Len(types) - 1 <= MaxIds
        /\ last' = OtherOp
        /\ Becomes(onUntyped(State, types, callback, FALSE, FALSE, nextId),
                   Len(types), Registered("on", types, callback), waited)

OnceUntyped ==
    \E types \in TypeLists, callback \in UserCbs :
        /\ nextId + Len(types) - 1 <= MaxIds
        /\ last' = OtherOp
        /\ Becomes(onceUntyped(State, types, callback, nextId),
                   Len(types), Registered("once", types, callback), waited)

OffCallbackUntyped ==
    \E types \in TypeLists, callback \in UserCbs :
        /\ last' = OtherOp
        /\ Becomes(offUntyped(State, TRUE, types, TRUE, callback), 0,
                   Removed("off", Range(types), {callback}), waited)

OffAllUntyped ==
    /\ last' = OtherOp
    /\ Becomes(offUntyped(State, FALSE, <<>>, FALSE, NoCb), 0,
               Removed("offAll", Names, UserCbs), WaitedAfter("off", Names, ""))

EmitOfReserved ==
    \E type \in Names, detail \in Details :
        /\ last' = EmitOp(type, detail)
        /\ Becomes(emitOfReserved(State, type, detail), 0,
                   Emitted(type), WaitedAfter("emit", {type}, detail))

EmitReservedOfReserved ==
    \E type \in ReservedNames, detail \in Details :
        /\ last' = EmitBy("emitReserved", type, detail)
        /\ Becomes(emitReservedOfReserved(State, type, detail), 0,
                   Emitted(type), WaitedAfter("emit", {type}, detail))

PullUntyped ==
    \E type \in Names, timeout \in PullTimeouts :
        /\ nextId <= MaxIds
        /\ Len(pulls) < MaxPulls
        /\ last' = OtherOp
        /\ Becomes(pullUntyped(State, type, timeout, Len(pulls) + 1, nextId), 1,
                   reg, Append(waited, Waiting))

\* The timer of the k-th pull runs out: its delay has gone by.
TimeoutUntyped ==
    \E k \in 1..Len(pulls) :
        /\ pulls[k].timer = "armed"
        /\ pulls[k].age >= pulls[k].delay
        /\ last' = OtherOp
        /\ Becomes(timeoutHandlerUntyped(State, k), 0, reg,
                   [waited EXCEPT ![k] =
                       IF @ = Waiting THEN [first |-> "timeout", detail |-> ""] ELSE @])

Tick ==
    /\ \E k \in 1..Len(pulls) : pulls[k].age < MaxAge
    /\ last' = OtherOp
    /\ Becomes(tick(State), 0, reg, waited)

NextUntyped ==
    \/ OnUntyped
    \/ OnceUntyped
    \/ OffCallbackUntyped
    \/ OffAllUntyped
    \/ EmitOfReserved
    \/ EmitReservedOfReserved
    \/ PullUntyped
    \/ TimeoutUntyped
    \/ Tick

SpecUntyped == Init /\ [][NextUntyped]_vars

\* A caller that passes one options object, {} at first, to its calls of
\* once and on.
OnceWithOptions ==
    \E types \in TypeLists, callback \in UserCbs :
        /\ nextId + Len(types) - 1 <= MaxIds
        /\ last' = OtherOp
        /\ Becomes(onceWithOptions(State, types, callback, nextId), Len(types),
                   Registered("once", types, callback), waited)

OnWithOptions ==
    \E types \in TypeLists, callback \in UserCbs :
        /\ nextId + Len(types) - 1 <= MaxIds
        /\ last' = OtherOp
        /\ Becomes(onWithOptions(State, types, callback, nextId), Len(types),
                   Registered("on", types, callback), waited)

NextOptions ==
    \/ OnceWithOptions
    \/ OnWithOptions
    \/ OffCallback
    \/ Emit

SpecOptions == Init /\ [][NextOptions]_vars

\* Listeners that throw, next to plain ones, on either kind of platform.
OnThrower ==
    \E type \in Names, callback \in UserCbs \cup {ThrowerCb}, isOnce \in BOOLEAN :
        /\ nextId <= MaxIds
        /\ last' = OtherOp
        /\ Becomes(on(State, <<type>>, callback, FALSE, isOnce, nextId), 1,
                   Registered(IF isOnce THEN "once" ELSE "on", <<type>>, callback),
                   waited)

\* emit(type, detail) on a platform that reports the exceptions of listeners
\* or on one that lets them through; last tells whether emit threw.
EmitThrower ==
    \E type \in Names, detail \in Details, platformReports \in BOOLEAN :
        LET after == emit([State EXCEPT !.reports = platformReports], type, detail)
        IN /\ last' = EmitBy(IF after.thrown THEN "emit threw" ELSE "emit",
                             type, detail)
           /\ Becomes(after, 0, Emitted(type), waited)

NextThrower ==
    \/ OnThrower
    \/ EmitThrower

SpecThrower == Init /\ [][NextThrower]_vars

\* Listeners that call the emitter while it invokes them, next to plain ones.
BodyCbs ==
    {ReaderCb, AgainCb("on"), AgainCb("once"), AdderCb("g"),
     RemoverCb("off", "g"), RemoverCb("removeEventListener", "g")}

OnReentrant ==
    \E type \in Names, callback \in UserCbs \cup BodyCbs :
        /\ nextId <= MaxIds
        /\ last' = OtherOp
        /\ Becomes(on(State, <<type>>, callback, FALSE, FALSE, nextId), 1,
                   Registered("on", <<type>>, callback), waited)

OnceReentrant ==
    \E type \in Names, callback \in UserCbs \cup BodyCbs :
        /\ nextId <= MaxIds
        /\ last' = OtherOp
        /\ Becomes(once(State, <<type>>, callback, FALSE, nextId), 1,
                   Registered("once", <<type>>, callback), waited)

\* The callback that emits the name it is invoked for is registered with
\* once (registered to last, it would emit without end).
OnceEmitter ==
    \E type \in Names :
        /\ nextId <= MaxIds
        /\ last' = OtherOp
        /\ Becomes(once(State, <<type>>, EmitterCb, FALSE, nextId), 1, reg, waited)

NextReentrant ==
    \/ OnReentrant
    \/ OnceReentrant
    \/ OnceEmitter
    \/ Emit

SpecReentrant == Init /\ [][NextReentrant]_vars

----------------------------------------------------------------------------
\* What the last emit did

\* The arguments the callback key was called with, in order.
ArgsOf(key) ==
    LET mine == SelectSeq(calls, LAMBDA c : c.fn = key)
    IN [i \in 1..Len(mine) |-> mine[i].arg]

\* The callbacks called, in order.
Called == [i \in 1..Len(calls) |-> calls[i].fn]

Payload(v) == [kind |-> "detail", type |-> "", detail |-> v]

\* The listeners of the EventTarget for name n that end in the callback key.
WrappersOf(n, key) == {i \in 1..Len(target[n]) : target[n][i].cb.key = key}

----------------------------------------------------------------------------
\* Registration and delivery

\* C1: a payload callback f whose only registration on n is one on(n, f), and
\* which was not removed, is invoked by emit(n, v) exactly once, with v, before
\* emit returns.
C1_OnDeliversOnce ==
    \A n \in Names, f \in Fns, v \in Details :
        (reg[n][f].state = "on" /\ last = EmitOp(n, v))
            => ArgsOf(UserCb(f)) = <<Payload(v)>>

C1_Witness ==
    \E n \in Names, f \in Fns, v \in Details :
        /\ reg[n][f].state = "on"
        /\ last = EmitOp(n, v)
        /\ ArgsOf(UserCb(f)) = <<Payload(v)>>
        /\ Len(calls) = 2

\* C2: a callback f whose only registration on n is one once(n, f) is invoked
\* by the first emit(n, v) that follows, with v, and by no later one; from the
\* end of that first emit on getListeners(n) does not contain f.
C2_OnceFiresOnce ==
    \A n \in Names, f \in Fns :
        reg[n][f].state = "once" =>
            /\ reg[n][f].emits >= 1
                => UserCb(f) \notin getListenersOfType(listeners, n)
            /\ \A v \in Details :
                last = EmitOp(n, v) =>
                    /\ reg[n][f].emits = 1 => ArgsOf(UserCb(f)) = <<Payload(v)>>
                    /\ reg[n][f].emits = 2 => ArgsOf(UserCb(f)) = <<>>

C2_Witness ==
    \E n \in Names, f \in Fns, v \in Details :
        /\ reg[n][f].state = "once"
        /\ reg[n][f].emits = 2
        /\ last = EmitOp(n, v)
        /\ ArgsOf(UserCb(f)) = <<>>
        /\ UserCb(f) \notin getListenersOfType(listeners, n)

\* C3: after off(n, f) or off([.., n, ..], f), and until f is registered for n
\* again, no emit(n, v) invokes f, whatever registrations of f on n preceded.
C3_OffStopsDelivery ==
    \A n \in Names, f \in Fns, v \in Details :
        (reg[n][f].state = "off" /\ last = EmitOp(n, v))
            => ArgsOf(UserCb(f)) = <<>>

\* C4: after off() without arguments, and until a listener is registered,
\* getListeners() is an empty mapping and emit invokes no listener.
AfterOffAll ==
    /\ \A n \in Names, f \in Fns : reg[n][f].state \in {"never", "offAll"}
    /\ \E n \in Names, f \in Fns : reg[n][f].state = "offAll"

C4_OffAllSilences ==
    AfterOffAll =>
        /\ DOMAIN getListeners(listeners) = {}
        /\ last.op = "emit" => calls = <<>>

\* C5: per event name every caller callback has at most one listener on the
\* EventTarget, and one emit invokes it at most once, however often and by
\* whichever methods it was registered.
C5_OneWrapperPerIdentity ==
    \A n \in Names, f \in Fns :
        /\ Cardinality(WrappersOf(n, UserCb(f))) <= 1
        /\ last.op = "emit" => Len(ArgsOf(UserCb(f))) <= 1

\* C6: off(n, f) changes f's registration on n and nothing else: for every
\* name, getListeners lists the same callbacks and emit invokes the same
\* callbacks with the same arguments in the same order, f on n set aside.
WithoutCallback(log, drop) == SelectSeq(log, LAMBDA c : c.fn \notin drop)

C6_OffOneFrame ==
    \A n \in Names, f \in Fns, capture \in Captures :
        LET after == off(State, TRUE, <<n>>, TRUE, UserCb(f), capture)
        IN \A m \in Names :
            LET drop == IF m = n THEN {UserCb(f)} ELSE {}
            IN /\ getListenersOfType(after.listeners, m)
                    = getListenersOfType(listeners, m) \ drop
               /\ \A v \in Details :
                    WithoutCallback(emit(after, m, v).calls, drop)
                        = WithoutCallback(emit(State, m, v).calls, drop)

\* f was removed from n with off(n, f); g, registered on n as well, is still
\* listed and was invoked by the emit that followed.
C6_Witness ==
    \E n \in Names, f \in Fns, g \in Fns, v \in Details :
        /\ f # g
        /\ reg[n][f].state = "off"
        /\ reg[n][g].state = "on"
        /\ last = EmitOp(n, v)
        /\ Called = <<UserCb(g)>>
        /\ getListenersOfType(listeners, n) = {UserCb(g)}

\* C7: after off(n) or off([n1..nk]), and until a listener is registered for
\* the name, emit on a name given invokes nothing, whatever was registered.
AfterOffTypes(n) ==
    /\ \A f \in Fns : reg[n][f].state \in {"never", "offTypes"}
    /\ \E f \in Fns : reg[n][f].state = "offTypes"

C7_OffTypesSilences ==
    \A n \in Names, v \in Details :
        (AfterOffTypes(n) /\ last = EmitOp(n, v)) => calls = <<>>

----------------------------------------------------------------------------
\* pull

\* C8: a pull(n) without timeout never rejects, and when the first thing that
\* happens to n after the call is emit(n, v) its promise is fulfilled with v.
C8_PullResolves ==
    \A k \in 1..Len(pulls) :
        ~pulls[k].timed =>
            /\ pulls[k].state # "rejected"
            /\ waited[k].first = "emit" =>
                /\ pulls[k].state = "fulfilled"
                /\ pulls[k].value = Payload(waited[k].detail)

\* The promise holds the payload of the first emit after a second emit with
\* another payload.
C8_Witness ==
    \E k \in 1..Len(pulls), v \in Details :
        /\ ~pulls[k].timed
        /\ waited[k].first = "emit"
        /\ pulls[k].state = "fulfilled"
        /\ pulls[k].value = Payload(waited[k].detail)
        /\ last = EmitOp(pulls[k].type, v)
        /\ v # waited[k].detail

\* C9: when the timer of a pull(n, t) runs out, which it does when no
\* emit(n, .) reached the pull before, the promise is rejected and stays
\* rejected, whatever is emitted later.
C9_PullTimesOut ==
    \A k \in 1..Len(pulls) :
        (pulls[k].timed /\ (waited[k].first = "timeout" \/ pulls[k].timer = "fired"))
            => pulls[k].state = "rejected"

\* The timer ran out, and an emit of the name followed and reached the
\* closure of the pull.
C9_Witness ==
    \E k \in 1..Len(pulls), v \in Details :
        /\ pulls[k].timed
        /\ waited[k].first = "timeout"
        /\ pulls[k].state = "rejected"
        /\ last = EmitOp(pulls[k].type, v)
        /\ ArgsOf(PullCb(k)) = <<Payload(v)>>

\* C10: once the timer of a pull(n, t) has run out, the listener the pull
\* registered is neither listed by getListeners(n) nor on the EventTarget.
C10_TimedOutPullLeavesNothing ==
    \A k \in 1..Len(pulls) :
        pulls[k].timer = "fired" =>
            /\ PullCb(k) \notin getListenersOfType(listeners, pulls[k].type)
            /\ WrappersOf(pulls[k].type, PullCb(k)) = {}

\* C11: for a pull(n, t) the event and the timer race and the promise settles
\* once: when emit(n, v) comes first the promise is fulfilled with v and the
\* timer is cleared, so that its handler never runs; when the timer comes first
\* the promise is rejected and holds no value, whatever is emitted later.
C11_PullRace ==
    \A k \in 1..Len(pulls) :
        pulls[k].timed =>
            /\ waited[k].first = "emit" =>
                /\ pulls[k].state = "fulfilled"
                /\ pulls[k].value = Payload(waited[k].detail)
                /\ pulls[k].timer = "cleared"
            /\ waited[k].first = "timeout" =>
                /\ pulls[k].state = "rejected"
                /\ pulls[k].value = NoValue
                /\ pulls[k].timer = "fired"
            /\ pulls[k].state = "fulfilled" => waited[k].first = "emit"
            /\ pulls[k].state = "rejected" => pulls[k].timer = "fired"

\* One pull lost the race to its timer, another won it, and the emit that
\* fulfilled the second reached the closure of the first as well.
C11_Witness ==
    \E j \in 1..Len(pulls), k \in 1..Len(pulls), v \in Details :
        /\ pulls[j].timed /\ pulls[k].timed
        /\ pulls[j].type = pulls[k].type
        /\ waited[j].first = "timeout" /\ pulls[j].state = "rejected"
        /\ waited[k] = [first |-> "emit", detail |-> v]
        /\ pulls[k].state = "fulfilled" /\ pulls[k].timer = "cleared"
        /\ last = EmitOp(pulls[k].type, v)
        /\ ArgsOf(PullCb(j)) = <<Payload(v)>>

----------------------------------------------------------------------------
\* Reserved events

\* The callbacks that listen to reserved names only: those registered for a
\* reserved name and never for a name of UserEvents, and the closures of the
\* pulls of a reserved name.
ReservedListeners ==
    {UserCb(f) : f \in {g \in Fns :
        /\ \E r \in ReservedNames : reg[r][g] # Never
        /\ \A u \in UserNames : reg[u][g] = Never}}
    \cup {PullCb(k) : k \in {j \in 1..Len(pulls) : pulls[j].type \in ReservedNames}}

\* C12: emitReserved(n, v) delivers as emit(n, v) does: from every state both
\* invoke the same callbacks with the same arguments in the same order and
\* leave the same registrations and promises; a callback registered once with
\* on gets v, one registered with addEventListener gets the event, and a pull
\* whose name saw the emit first is fulfilled with v.
C12_EmitReservedDelivers ==
    /\ \A n \in ReservedNames, v \in Details :
            emitReserved(State, n, v) = emit(State, n, v)
    /\ \A n \in ReservedNames, v \in Details :
            last = EmitBy("emitReserved", n, v) =>
                /\ \A f \in Fns :
                    /\ reg[n][f].state = "on" => ArgsOf(UserCb(f)) = <<Payload(v)>>
                    /\ reg[n][f].state = "addEventListener"
                        => ArgsOf(UserCb(f)) = <<createEvent(n, v)>>
                    /\ (reg[n][f].state = "once" /\ reg[n][f].emits = 1)
                        => ArgsOf(UserCb(f)) = <<Payload(v)>>
                /\ \A k \in 1..Len(pulls) :
                    waited[k] = [first |-> "emit", detail |-> v]
                        => /\ pulls[k].state = "fulfilled"
                           /\ pulls[k].value = Payload(v)

\* emitReserved reached a callback registered with on and then the closure of
\* a pull, which it fulfilled.
C12_Witness ==
    \E n \in ReservedNames, v \in Details, f \in Fns :
        /\ last = EmitBy("emitReserved", n, v)
        /\ reg[n][f].state = "on"
        /\ Len(pulls) = 1 /\ pulls[1].type = n
        /\ Called = <<UserCb(f), PullCb(1)>>
        /\ pulls[1].state = "fulfilled" /\ pulls[1].value = Payload(v)

C14_ReservedOnlyByExtendingClass ==
    last.op \notin {"emitReserved", "emitUntyped"} =>
        \A c \in ReservedListeners : ArgsOf(c) = <<>>

----------------------------------------------------------------------------
\* subscribe

\* C15: once the function subscribe(n, f) returned has been called, and until
\* f is registered for n again, getListeners(n) does not contain f and no
\* emit(n, v) invokes f; a callback that calls that function from its body
\* runs for the emit that invokes it, once, and for no later emit.
C15_CleanupStopsDelivery ==
    /\ \A n \in Names, f \in Fns :
        reg[n][f].state = "cleanup" =>
            /\ UserCb(f) \notin getListenersOfType(listeners, n)
            /\ \A v \in Details : last = EmitOp(n, v) => ArgsOf(UserCb(f)) = <<>>
    /\ \A n \in Names, v \in Details, w \in Details :
        CancelCb(n) \in getListenersOfType(listeners, n) =>
            LET first == emit(State, n, v)
                later == emit([first EXCEPT !.calls = <<>>], n, w)
                OfCancelCb(log) == SelectSeq(log, LAMBDA c : c.fn = CancelCb(n))
            IN /\ OfCancelCb(first.calls) = <<[fn |-> CancelCb(n), arg |-> Payload(v)]>>
               /\ CancelCb(n) \notin getListenersOfType(first.listeners, n)
               /\ OfCancelCb(later.calls) = <<>>

----------------------------------------------------------------------------
\* Names given as an array

\* The calls of the callback key in a log of calls.
CallsOf(log, key) == SelectSeq(log, LAMBDA c : c.fn = key)

\* C16: a callback f registered on every name by on, as on([n1..nk], f) does,
\* and not removed, is invoked once, with v, by emit(ni, v) for every ni; and
\* off(ni, f) ends that for ni alone: f stays listed and invoked on the others.
C16_OnArrayFansOut ==
    \A f \in Fns :
        (\A n \in Names : reg[n][f].state = "on") =>
            \A n \in Names, v \in Details :
                LET once_v == <<[fn |-> UserCb(f), arg |-> Payload(v)]>>
                    after == off(State, TRUE, <<n>>, TRUE, UserCb(f), FALSE)
                IN /\ CallsOf(emit(State, n, v).calls, UserCb(f)) = once_v
                   /\ CallsOf(emit(after, n, v).calls, UserCb(f)) = <<>>
                   /\ UserCb(f) \notin getListenersOfType(after.listeners, n)
                   /\ \A m \in Names \ {n} :
                        /\ UserCb(f) \in getListenersOfType(after.listeners, m)
                        /\ CallsOf(emit(after, m, v).calls, UserCb(f)) = once_v

\* One on([n1..nk], f) put the same closure on the lists of all the names, and
\* an emit of one of them has invoked f once.
C16_Witness ==
    \E f \in Fns, v \in Details, n \in Names :
        /\ \A m \in Names : reg[m][f].state = "on"
        /\ \E id \in 1..MaxIds :
            \A m \in Names : \E i \in 1..Len(target[m]) :
                target[m][i].cb = passOnlyDetail(UserCb(f), id)
        /\ last = EmitOp(n, v)
        /\ calls = <<[fn |-> UserCb(f), arg |-> Payload(v)]>>

----------------------------------------------------------------------------
\* addEventListener with once

\* C17: a callback g whose only registration on n is one
\* addEventListener(n, g, {once: true}) is itself what getListeners(n) lists
\* until the first dispatch of n; that dispatch invokes g, with the event, no
\* later one does, and from its end on getListeners(n) does not contain g.
C17_AddEventListenerOnce ==
    \A n \in Names, g \in Fns :
        reg[n][g].state = "addEventListenerOnce" =>
            /\ reg[n][g].emits = 0 => UserCb(g) \in getListenersOfType(listeners, n)
            /\ reg[n][g].emits >= 1 => UserCb(g) \notin getListenersOfType(listeners, n)
            /\ \A v \in Details :
                last = EmitOp(n, v) =>
                    /\ reg[n][g].emits = 1
                        => ArgsOf(UserCb(g)) = <<createEvent(n, v)>>
                    /\ reg[n][g].emits = 2 => ArgsOf(UserCb(g)) = <<>>

C17_Witness ==
    \E n \in Names, g \in Fns, v \in Details :
        /\ reg[n][g] = [state |-> "addEventListenerOnce", emits |-> 2]
        /\ last = EmitOp(n, v)
        /\ calls # <<>>
        /\ ArgsOf(UserCb(g)) = <<>>
        /\ getListenersOfType(listeners, n) # {}
        /\ UserCb(g) \notin getListenersOfType(listeners, n)

----------------------------------------------------------------------------
\* Order of invocation

\* Every callback registered for n has one registration, which is still there.
SingleRegistrations(n) ==
    \A f \in Fns :
        \/ reg[n][f].state \in {"never", "on", "addEventListener"}
        \/ /\ reg[n][f].state \in {"once", "addEventListenerOnce"}
           /\ reg[n][f].emits = 0

----------------------------------------------------------------------------
\* Several pulls

\* C19: pulls of one name are independent: as long as nothing has happened to
\* the name since its call a pull is pending and has its own closure listed
\* and on the EventTarget, once; a pull whose name saw an emit first holds the
\* payload of that emit; and the timer of one pull running out changes neither
\* another pull nor any registration.
C19_PullsIndependent ==
    \A k \in 1..Len(pulls) :
        /\ waited[k] = Waiting =>
            /\ pulls[k].state = "pending"
            /\ PullCb(k) \in getListenersOfType(listeners, pulls[k].type)
            /\ Cardinality(WrappersOf(pulls[k].type, PullCb(k))) = 1
        /\ waited[k].first = "emit" =>
            /\ pulls[k].state = "fulfilled"
            /\ pulls[k].value = Payload(waited[k].detail)
        /\ pulls[k].timer = "armed" =>
            LET after == timeoutHandler(State, k)
            IN /\ after.listeners = listeners
               /\ after.target = target
               /\ \A j \in 1..Len(pulls) \ {k} : after.pulls[j] = pulls[j]

\* Two pulls of one name, called before and after an emit, hold the payloads
\* of two emits.
C19_Witness ==
    \E j \in 1..Len(pulls), k \in 1..Len(pulls) :
        /\ pulls[j].type = pulls[k].type
        /\ pulls[j].state = "fulfilled" /\ pulls[k].state = "fulfilled"
        /\ pulls[j].value # pulls[k].value
        /\ pulls[j].value = Payload(waited[j].detail)
        /\ pulls[k].value = Payload(waited[k].detail)

----------------------------------------------------------------------------
\* getListeners

\* The callback f was passed to a registering method for n and that
\* registration has not ended: it was not removed and, if one-shot, n has not
\* been emitted since.
RegisteredNow(n, f) ==
    \/ LivePersistent(reg[n][f])
    \/ /\ reg[n][f].state \in {"once", "addEventListenerOnce", "otherOnce"}
       /\ reg[n][f].emits = 0

\* C20: getListeners(n) is the set of the callbacks registered for n at the
\* time, the caller's callbacks and never a wrapper, and getListeners() maps
\* the names to these sets.
C20_GetListenersIdentities ==
    /\ \A n \in Names :
        getListenersOfType(listeners, n)
            = {UserCb(f) : f \in {g \in Fns : RegisteredNow(n, g)}}
    /\ \A n \in Names :
        IF n \in DOMAIN getListeners(listeners)
        THEN getListeners(listeners)[n] = getListenersOfType(listeners, n)
        ELSE getListenersOfType(listeners, n) = {}

----------------------------------------------------------------------------
\* Removal of what is not registered

----------------------------------------------------------------------------
\* The shapes of off

\* The names off can be given: those of the emitter, and the empty string,
\* which is an event name as any other string.
OffNames == Names \cup {""}
\* The types arguments of the defined shapes that name events.
OffTypes1 == {OneType(n) : n \in OffNames} \cup {TypeArray(ns) : ns \in TypeLists}

\* C22: off with a callback and no name throws and leaves registry and
\* EventTarget as they are; off(), off(n), off([n..]), off(n, f) and
\* off([n..], f) never throw.
C22_OffShapes ==
    /\ offThrows(Truthy(NoTypes), TRUE)
    /\ \A f \in Fns :
        off(State, Truthy(NoTypes), NoTypes.names, TRUE, UserCb(f), FALSE) = State
    /\ ~offThrows(Truthy(NoTypes), FALSE)
    /\ \A types \in OffTypes1, hasCallback \in BOOLEAN :
        ~offThrows(Truthy(types), hasCallback)

\* The same for the names that are not empty.
C22_NonEmptyNames ==
    /\ offThrows(Truthy(NoTypes), TRUE)
    /\ \A f \in Fns :
        off(State, Truthy(NoTypes), NoTypes.names, TRUE, UserCb(f), FALSE) = State
    /\ ~offThrows(Truthy(NoTypes), FALSE)
    /\ \A types \in {t \in OffTypes1 : t.names # <<"">>}, hasCallback \in BOOLEAN :
        ~offThrows(Truthy(types), hasCallback)

----------------------------------------------------------------------------
\* The entry points of emit

\* C23: dispatch and publish are emit, and dispatchEvent of the event built
\* for (n, v) does what emit(n, v) does: from every state the same callbacks
\* are invoked with the same arguments in the same order and the same
\* registrations and promises are left; a callback registered once with on
\* gets v, one registered with addEventListener gets the event.
C23_EmitAliases ==
    /\ \A n \in Names, v \in Details :
        /\ dispatch(State, n, v) = emit(State, n, v)
        /\ publish(State, n, v) = emit(State, n, v)
        /\ dispatchEvent(State, createEvent(n, v)) = emit(State, n, v)
    /\ last.op \in {"dispatch", "publish", "dispatchEvent"} =>
        \A f \in Fns :
            /\ reg[last.type][f].state = "on"
                => ArgsOf(UserCb(f)) = <<Payload(last.detail)>>
            /\ reg[last.type][f].state = "addEventListener"
                => ArgsOf(UserCb(f)) = <<createEvent(last.type, last.detail)>>

\* publish reached a callback registered with addEventListener and one
\* registered with on, in this order.
C23_Witness ==
    \E f \in Fns, g \in Fns :
        /\ last.op = "publish"
        /\ reg[last.type][f].state = "on"
        /\ reg[last.type][g].state = "addEventListener"
        /\ calls = <<[fn |-> UserCb(g), arg |-> createEvent(last.type, last.detail)],
                     [fn |-> UserCb(f), arg |-> Payload(last.detail)]>>

----------------------------------------------------------------------------
\* src/EventEmitter.ts

\* C24: in src/EventEmitter.ts, after off(n) or off([.., n, ..]) and until a
\* callback is registered for n, emit(n, v) invokes nothing, the callbacks
\* added with on included, while a callback whose one registration, by on, is
\* on a name not removed is still invoked, with the payload.
C24_EarlyOffTypesSilences ==
    \A n \in Names, v \in Details :
        last = EmitOp(n, v) =>
            /\ AfterOffTypes(n) => calls = <<>>
            /\ \A f \in Fns :
                reg[n][f].state = "on" => ArgsOf(UserCb(f)) = <<Payload(v)>>

----------------------------------------------------------------------------
\* Registry and EventTarget

\* The functions on the EventTarget list of n, and the values of n's Map.
OnTarget(n) == {target[n][i].cb : i \in 1..Len(target[n])}
InRegistry(n) ==
    IF listeners[n].has
    THEN {listeners[n].map[i].value : i \in 1..Len(listeners[n].map)}
    ELSE {}

\* C25: between the operations, for every name the functions registered with
\* the EventTarget are exactly the values the registry holds for the name.
C25_RegistryMatchesTarget ==
    \A n \in Names : OnTarget(n) = InRegistry(n)

----------------------------------------------------------------------------
\* Listeners that call the emitter during an emit

AllCbs == UserCbs \cup BodyCbs

\* The callback key has one registration for n, a one-shot one: one listener
\* of the EventTarget is a function made for key, it has the once flag, and it
\* is the function the registry holds for key.
OnceRegistered(n, key) ==
    /\ listeners[n].has
    /\ MapHas(listeners[n].map, key)
    /\ \E i \in 1..Len(target[n]) :
        /\ target[n][i].cb = MapGet(listeners[n].map, key)
        /\ target[n][i].once
        /\ \A j \in 1..Len(target[n]) : target[n][j].cb.key = key => j = i

\* The calls of log between the i-th and the j-th register the callback key.
RegisteredBetween(log, i, j, key) ==
    \E k \in i..j :
        \/ log[k].fn.src = "adder" /\ UserCb(log[k].fn.fn) = key
        \/ log[k].fn.src = "again" /\ log[k].fn = key /\ k > i

\* C26: when emit(n, v) invokes a callback whose one registration for n is a
\* one-shot one, a listener of n invoked later in the same emit that reads
\* getListeners(n) does not see the callback (unless a listener invoked in
\* between registered it again), and the EventTarget does not list it either.
C26_OnceGoneBeforeNextListener ==
    \A n \in Names, v \in Details, key \in AllCbs :
        OnceRegistered(n, key) =>
            LET log == emit(State, n, v).calls
            IN \A i \in 1..Len(log), j \in 1..Len(log) :
                (/\ i < j
                 /\ log[i].fn = key
                 /\ log[j].fn = ReaderCb
                 /\ ~RegisteredBetween(log, i, j, key))
                => /\ key \notin log[j].saw
                   /\ key \notin log[j].listed

\* emit invoked f, registered with once, and then the reader registered after
\* it, which saw only itself in getListeners.
C26_Witness ==
    /\ last.op = "emit"
    /\ Len(calls) = 2
    /\ calls[1].fn = UserCb("f")
    /\ reg[last.type]["f"] = [state |-> "once", emits |-> 1]
    /\ calls[2].fn = ReaderCb
    /\ calls[2].saw = {ReaderCb}
    /\ calls[2].listed = {ReaderCb}

\* C27: when the one registration of a callback for n is a one-shot one and
\* the body of the callback registers the callback again for n, with on(n, .)
\* or once(n, .), emit(n, v) invokes the callback exactly once.
C27_ReRegisteringOnceRunsOnce ==
    \A n \in Names, v \in Details, method \in {"on", "once"} :
        OnceRegistered(n, AgainCb(method)) =>
            Len(CallsOf(emit(State, n, v).calls, AgainCb(method))) = 1

\* emit invoked, once, the callback registered with once whose body calls
\* on(n, itself): the registration made from the body took an identity, and
\* the name has no listener left.
C27_Witness ==
    /\ last.op = "emit"
    /\ calls = <<[fn |-> AgainCb("on"), arg |-> Payload(last.detail)]>>
    /\ target[last.type] = <<>>
    /\ nextId = 3

\* The EventTarget of st has a listener of n made for key to last.
HasLastingListener(st, n, key) ==
    \E i \in 1..Len(st.target[n]) :
        ~st.target[n][i].once /\ st.target[n][i].cb.key = key

\* C28: a registration made to last is ended by off or removeEventListener
\* only.  While f has such a registration for n and nothing has removed f
\* since, f is listed by getListeners(n) and an emit of n invokes it, whatever
\* one-shot registrations of f or of other callbacks have removed themselves;
\* and the registration a one-shot callback makes with on(n, itself) while it
\* is invoked is there after that emit.
C28_OnRegistrationLasts ==
    /\ \A n \in Names :
        LivePersistent(reg[n]["f"])
        => /\ UserCb("f") \in getListenersOfType(listeners, n)
           /\ (last.op = "emit" /\ last.type = n) => ArgsOf(UserCb("f")) # <<>>
    /\ \A n \in Names, v \in Details :
        OnceRegistered(n, AgainCb("on"))
        => LET after == emit(State, n, v)
           IN /\ AgainCb("on") \in getListenersOfType(after.listeners, n)
              /\ HasLastingListener(after, n, AgainCb("on"))

\* The part of C28 about other identities: while the one registration of f
\* for n is one made with on, f is listed by getListeners(n) and an emit of n
\* invokes it, whatever the other listeners of n do when they are invoked.
C28_OtherIdentities ==
    \A n \in Names :
        reg[n]["f"].state = "on"
        => /\ UserCb("f") \in getListenersOfType(listeners, n)
           /\ (last.op = "emit" /\ last.type = n) => ArgsOf(UserCb("f")) # <<>>

\* The places, on the EventTarget's list of n, of the listeners made for key.
PlacesOf(n, key) == {i \in 1..Len(target[n]) : target[n][i].cb.key = key}

\* The callback key has one listener on the EventTarget's list of n, and it
\* is the function the registry holds for key.
SoleListener(n, key) ==
    /\ listeners[n].has
    /\ MapHas(listeners[n].map, key)
    /\ \E i \in 1..Len(target[n]) :
        /\ PlacesOf(n, key) = {i}
        /\ target[n][i].cb = MapGet(listeners[n].map, key)

Removers(f) == {RemoverCb("off", f), RemoverCb("removeEventListener", f)}

\* C29: g has one listener on the list of n and no listener registers g
\* again or emits n again during the emit.  When a listener of n whose body calls off(n, g) or
\* removeEventListener(n, g) comes before the listener of g, emit(n, v) does
\* not invoke g; when every such listener comes after the listener of g,
\* emit(n, v) invokes g once, as without them.
C29_RemovedBeforeVisitIsSkipped ==
    \A n \in Names, v \in Details :
        (/\ SoleListener(n, UserCb("g"))
         /\ PlacesOf(n, AdderCb("g")) = {}
         /\ PlacesOf(n, EmitterCb) = {}) =>
            LET log == emit(State, n, v).calls
                gAt == CHOOSE i \in PlacesOf(n, UserCb("g")) : TRUE
                removersAt == UNION {PlacesOf(n, r) : r \in Removers("g")}
            IN /\ (\E i \in removersAt : i < gAt)
                    => CallsOf(log, UserCb("g")) = <<>>
               /\ (removersAt # {} /\ \A i \in removersAt : i > gAt)
                    => Len(CallsOf(log, UserCb("g"))) = 1

\* emit invoked the listener that calls off(n, g) and did not invoke g,
\* registered with on after it.
C29_Witness ==
    /\ last.op = "emit"
    /\ calls = <<[fn |-> RemoverCb("off", "g"), arg |-> Payload(last.detail)]>>
    /\ reg[last.type]["g"].state = "on"
    /\ nextId = 3

\* emit invoked g and then the listener that calls removeEventListener(n, g),
\* registered after g.
C29_WitnessVisited ==
    /\ last.op = "emit"
    /\ calls = <<[fn |-> UserCb("g"), arg |-> Payload(last.detail)],
                 [fn |-> RemoverCb("removeEventListener", "g"),
                  arg |-> Payload(last.detail)]>>
    /\ ~MapHas(listeners[last.type].map, UserCb("g"))

\* C30: dispatch walks the live listener store: when a listener of n whose
\* body calls on(n, g) is invoked by emit(n, v) and g had no listener for n,
\* the same emit invokes g after it, with the payload.
C30_AddedListenerVisitedInSameEmit ==
    \A n \in Names, v \in Details :
        (/\ PlacesOf(n, AdderCb("g")) # {}
         /\ PlacesOf(n, UserCb("g")) = {}
         /\ UserCb("g") \notin getListenersOfType(listeners, n))
        => LET log == emit(State, n, v).calls
           IN \E i \in 1..Len(log), j \in 1..Len(log) :
                /\ i < j
                /\ log[i].fn = AdderCb("g")
                /\ log[j] = [fn |-> UserCb("g"), arg |-> Payload(v)]

\* What the EventTarget does instead: the listener registered from the body
\* was not invoked by the emit and, when no listener of n removes g, is on the
\* list after it.
C30_AddedListenerWaitsForNextEmit ==
    \A n \in Names, v \in Details :
        (/\ PlacesOf(n, AdderCb("g")) # {}
         /\ PlacesOf(n, UserCb("g")) = {}
         /\ \A r \in Removers("g") : PlacesOf(n, r) = {}
         /\ UserCb("g") \notin getListenersOfType(listeners, n))
        => LET after == emit(State, n, v)
           IN /\ CallsOf(after.calls, UserCb("g")) = <<>>
              /\ HasLastingListener(after, n, UserCb("g"))
              /\ UserCb("g") \in getListenersOfType(after.listeners, n)

\* C31: when the one registration for n of the callback whose body calls
\* emit(n, .) is a one-shot one, emit(n, v) invokes that callback exactly
\* once, and the emit made from its body reaches the other listeners of n: f
\* with one listener made to last is invoked twice, by the emit from the body
\* and by emit(n, v), and f with one one-shot listener once.
C31_NestedEmitSkipsOnceListener ==
    \A n \in Names, v \in Details :
        OnceRegistered(n, EmitterCb) =>
            LET log == emit(State, n, v).calls
            IN /\ Len(CallsOf(log, EmitterCb)) = 1
               /\ SoleListener(n, UserCb("f")) =>
                    Len(CallsOf(log, UserCb("f")))
                        = IF OnceRegistered(n, UserCb("f")) THEN 1 ELSE 2

\* emit invoked the one-shot callback that emits, whose emit invoked f,
\* registered with on after it, and then invoked f itself.
C31_Witness ==
    /\ last.op = "emit"
    /\ Called = <<EmitterCb, UserCb("f"), UserCb("f")>>
    /\ reg[last.type]["f"].state = "on"
    /\ PlacesOf(last.type, EmitterCb) = {}

----------------------------------------------------------------------------
\* The option capture

\* The callback key has one listener on the list of n, the function the
\* registry holds for key, registered with the given capture.
SoleListenerWith(n, key, capture) ==
    /\ SoleListener(n, key)
    /\ \A i \in PlacesOf(n, key) : target[n][i].capture = capture

\* The removals C32 names, called without options, from the current state.
RemovalsWithoutOptions(n, key) ==
    {off(State, FALSE, <<>>, FALSE, NoCb, FALSE),
     off(State, TRUE, <<n>>, FALSE, NoCb, FALSE),
     off(State, TRUE, <<n>>, TRUE, key, FALSE),
     cleanup(State, n, key)}

\* C32: removal does not depend on the options of the registration: when f
\* has one listener for n, registered with capture: true or without it, then
\* after off(), off(n), off(n, f) or the function subscribe returned, an
\* emit(n, v) does not invoke f.
C32_RemovalWhateverTheOptions ==
    \A n \in Names, v \in Details, f \in Fns :
        SoleListener(n, UserCb(f)) =>
            \A removed \in RemovalsWithoutOptions(n, UserCb(f)) :
                CallsOf(emit(removed, n, v).calls, UserCb(f)) = <<>>

\* The part of C32 that holds: a listener registered without capture is not
\* invoked after those removals, and one registered with capture: true is not
\* invoked after off(n, f, {capture: true}).
C32_RemovalWithTheSameCapture ==
    \A n \in Names, v \in Details, f \in Fns :
        /\ SoleListenerWith(n, UserCb(f), FALSE) =>
            \A removed \in RemovalsWithoutOptions(n, UserCb(f)) :
                CallsOf(emit(removed, n, v).calls, UserCb(f)) = <<>>
        /\ SoleListenerWith(n, UserCb(f), TRUE) =>
            CallsOf(emit(off(State, TRUE, <<n>>, TRUE, UserCb(f), TRUE), n, v).calls,
                    UserCb(f)) = <<>>

----------------------------------------------------------------------------
\* A pull nobody waits for

\* C33: a pull(n) without timeout adds exactly one listener to n; while
\* nothing has happened to n since (no emit of n and no off that covers n)
\* the listener is registered, and the first emit of n removes it: after
\* pull(n) and emit(n, v) the callbacks and the listeners of n are those
\* emit(n, v) alone leaves.
C33_UnawaitedPullLeavesOneListener ==
    /\ \A k \in 1..Len(pulls) :
        LET n == pulls[k].type
        IN ~pulls[k].timed =>
            /\ waited[k] = Waiting
                => /\ Cardinality(PlacesOf(n, PullCb(k))) = 1
                   /\ PullCb(k) \in getListenersOfType(listeners, n)
            /\ waited[k].first = "emit"
                => /\ PlacesOf(n, PullCb(k)) = {}
                   /\ PullCb(k) \notin getListenersOfType(listeners, n)
    /\ \A n \in Names, v \in Details :
        LET k == Len(pulls) + 1
            pulled == pull(State, n, FALSE, k, nextId)
            after == emit(pulled, n, v)
            without == emit(State, n, v)
        IN /\ Len(pulled.target[n]) = Len(target[n]) + 1
           /\ getListenersOfType(pulled.listeners, n)
                = getListenersOfType(listeners, n) \cup {PullCb(k)}
           /\ after.target[n] = without.target[n]
           /\ getListenersOfType(after.listeners, n)
                = getListenersOfType(without.listeners, n)

\* The first emit of the name of a pull without timeout removed the listener
\* of the pull and left f, registered with on, where it was.
C33_Witness ==
    /\ last.op = "emit"
    /\ Len(pulls) = 1
    /\ ~pulls[1].timed
    /\ pulls[1].type = last.type
    /\ waited[1] = [first |-> "emit", detail |-> last.detail]
    /\ Called = <<PullCb(1), UserCb("f")>>
    /\ PlacesOf(last.type, PullCb(1)) = {}
    /\ getListenersOfType(listeners, last.type) = {UserCb("f")}

\* C34: once off() or off(n) has been called while a pull(n) without timeout
\* was pending (and before any emit of n), the listener of the pull is gone
\* and the promise stays pending whatever happens afterwards: no later emit
\* fulfils it and nothing rejects it.
C34_PullStaysPendingAfterOff ==
    \A k \in 1..Len(pulls) :
        (~pulls[k].timed /\ waited[k].first = "off")
        => /\ pulls[k].state = "pending"
           /\ pulls[k].value = NoValue
           /\ PlacesOf(pulls[k].type, PullCb(k)) = {}
           /\ PullCb(k) \notin getListenersOfType(listeners, pulls[k].type)

\* An emit of the name of a pull without timeout, after an off that covered
\* the name, invoked f only and left the promise pending.
C34_Witness ==
    /\ last.op = "emit"
    /\ Len(pulls) = 1
    /\ ~pulls[1].timed
    /\ pulls[1].type = last.type
    /\ waited[1].first = "off"
    /\ pulls[1].state = "pending"
    /\ Called = <<UserCb("f")>>

----------------------------------------------------------------------------
\* once with an array of names

\* C35: a callback f whose one registration on every name is a one-shot one,
\* as once([n1..nk], f) makes them, is invoked with v by the first emit(n, v)
\* of each name n and by no later emit of n; that emit removes the
\* registration of n and leaves those of the other names as they are.
C35_OnceArrayFansOut ==
    \A f \in Fns :
        (\A n \in Names : reg[n][f].state = "once") =>
            \A n \in Names, v \in Details :
                LET after == emit(State, n, v)
                    fired == CallsOf(after.calls, UserCb(f))
                IN /\ reg[n][f].emits = 0
                        => fired = <<[fn |-> UserCb(f), arg |-> Payload(v)]>>
                   /\ reg[n][f].emits >= 1 => fired = <<>>
                   /\ UserCb(f) \notin getListenersOfType(after.listeners, n)
                   /\ CallsOf(emit(after, n, v).calls, UserCb(f)) = fired
                   /\ \A m \in Names \ {n} :
                        /\ after.target[m] = target[m]
                        /\ after.listeners[m] = listeners[m]
                        /\ reg[m][f].emits = 0
                            => UserCb(f) \in getListenersOfType(after.listeners, m)

\* After once on all the names, the first emit of one name has invoked f and
\* removed the registration of that name only.
C35_Witness ==
    \E f \in Fns, n \in Names :
        /\ last.op = "emit" /\ last.type = n
        /\ calls = <<[fn |-> UserCb(f), arg |-> Payload(last.detail)]>>
        /\ reg[n][f] = [state |-> "once", emits |-> 1]
        /\ UserCb(f) \notin getListenersOfType(listeners, n)
        /\ \A m \in Names \ {n} :
            /\ reg[m][f] = [state |-> "once", emits |-> 0]
            /\ UserCb(f) \in getListenersOfType(listeners, m)
            /\ Len(target[m]) = 1

----------------------------------------------------------------------------
\* Listeners that throw

\* A listener of the throwing callback comes before the one listener of f on
\* the list of n.
ThrowerBefore(n, f) ==
    /\ SoleListener(n, UserCb(f))
    /\ \E i \in PlacesOf(n, ThrowerCb), j \in PlacesOf(n, UserCb(f)) : i < j

\* C36: on every platform, when a listener of n throws during emit(n, v),
\* emit throws to its caller and does not invoke the listeners of n
\* registered after the one that threw.
C36_ExceptionAbortsEmit ==
    \A n \in Names, v \in Details, f \in Fns, platformReports \in BOOLEAN :
        ThrowerBefore(n, f) =>
            LET after == emit([State EXCEPT !.reports = platformReports], n, v)
            IN /\ after.thrown
               /\ CallsOf(after.calls, UserCb(f)) = <<>>

\* What happens instead: where the EventTarget lets the exception through,
\* emit throws and f is not invoked; where it reports the exception, as the
\* DOM standard says, emit returns and f is invoked.
C36_DependsOnThePlatform ==
    \A n \in Names, v \in Details, f \in Fns :
        ThrowerBefore(n, f) =>
            LET through == emit([State EXCEPT !.reports = FALSE], n, v)
                reported == emit([State EXCEPT !.reports = TRUE], n, v)
            IN /\ through.thrown
               /\ CallsOf(through.calls, UserCb(f)) = <<>>
               /\ ~reported.thrown
               /\ Len(CallsOf(reported.calls, UserCb(f))) = 1

----------------------------------------------------------------------------
\* ReservedEventEmitter / UntypedEventEmitter

\* The callback key has no registration for n.
Unregistered(n, key) ==
    /\ PlacesOf(n, key) = {}
    /\ ~(listeners[n].has /\ MapHas(listeners[n].map, key))

\* C37: for ReservedEventEmitter, after once(n, f) and then off(n, f), with no
\* emit in between, neither emit(n, v) nor emitReserved(n, v) invokes f.
C37_OnceThenOffSilences ==
    \A n \in Names, v \in Details, f \in Fns :
        Unregistered(n, UserCb(f)) =>
            LET registered == onceUntyped(State, <<n>>, UserCb(f), nextId)
                removed == offUntyped(registered, TRUE, <<n>>, TRUE, UserCb(f))
            IN /\ CallsOf(emitOfReserved(removed, n, v).calls, UserCb(f)) = <<>>
               /\ CallsOf(emitReservedOfReserved(removed, n, v).calls, UserCb(f)) = <<>>

\* C38: for ReservedEventEmitter, when a listener registered with once(n, f)
\* or by pull(n) has fired, the registry has no entry for it any more:
\* getListeners(n) is what it was before the registration.
C38_FiredOneShotLeavesRegistry ==
    \A n \in Names, v \in Details :
        /\ \A f \in Fns :
              Unregistered(n, UserCb(f)) =>
                  LET registered == onceUntyped(State, <<n>>, UserCb(f), nextId)
                      fired == emitOfReserved(registered, n, v)
                  IN CallsOf(fired.calls, UserCb(f)) # <<>> =>
                        /\ ~MapHas(fired.listeners[n].map, UserCb(f))
                        /\ getListenersOfTypeUntyped(fired.listeners, n)
                              = getListenersOfTypeUntyped(listeners, n)
        /\ LET k == Len(pulls) + 1
               pulled == pullUntyped(State, n, 0, k, nextId)
               fired == emitOfReserved(pulled, n, v)
           IN fired.pulls[k].state = "fulfilled" =>
                 /\ ~MapHas(fired.listeners[n].map, PullCb(k))
                 /\ getListenersOfTypeUntyped(fired.listeners, n)
                       = getListenersOfTypeUntyped(listeners, n)

\* What the code does instead: the entry of a fired one-shot listener stays
\* in the registry, while the EventTarget has dropped the listener.
C38_FiredOneShotStaysInRegistry ==
    \A n \in Names, v \in Details, f \in Fns :
        Unregistered(n, UserCb(f)) =>
            LET registered == onceUntyped(State, <<n>>, UserCb(f), nextId)
                fired == emitOfReserved(registered, n, v)
            IN /\ Len(CallsOf(fired.calls, UserCb(f))) = 1
               /\ MapHas(fired.listeners[n].map, UserCb(f))
               /\ \A i \in 1..Len(fired.target[n]) : fired.target[n][i].cb.key # UserCb(f)

\* C39: pull(n, t) does not reject before t milliseconds have gone by since
\* the call, so an emit(n, v) that reaches the closure of the pull less than
\* t milliseconds after the call resolves the promise with v.
C39_NoRejectionBeforeTimeout ==
    \A k \in 1..Len(pulls) :
        pulls[k].timed =>
            /\ pulls[k].state = "rejected" => pulls[k].rejectedAt >= pulls[k].timeout
            /\ (CallsOf(calls, PullCb(k)) # <<>> /\ pulls[k].age < pulls[k].timeout)
                  => /\ pulls[k].state = "fulfilled"
                     /\ pulls[k].value = Payload(last.detail)

\* What the code does instead: the timer is set without a delay, so the
\* promise is rejected as soon as the timer task runs, whatever t is; only an
\* emit that comes before the timer task resolves the promise.
C39_ResolvesUntilTheTimerRuns ==
    \A k \in 1..Len(pulls) :
        pulls[k].timed =>
            /\ pulls[k].delay = 0
            /\ pulls[k].state = "rejected" => pulls[k].timer = "fired"
            /\ (CallsOf(calls, PullCb(k)) # <<>> /\ pulls[k].timer # "fired")
                  => /\ pulls[k].state = "fulfilled"
                     /\ pulls[k].value = Payload(last.detail)

----------------------------------------------------------------------------
\* The options object of the caller

\* C40: once(n, f, options) leaves the options object of the caller as it
\* was, so a callback registered afterwards with on(m, g, options), once
\* and not removed since, is invoked by every emit(m, v).
C40_OnceLeavesOptionsUnchanged ==
    \A m \in Names, g \in Fns, v \in Details :
        reg[m][g] = Single("on") =>
            LET first == emit(State, m, v)
                second == emit(first, m, v)
            IN /\ Len(CallsOf(first.calls, UserCb(g))) = 1
               /\ Len(CallsOf(second.calls, UserCb(g))) = 2

\* What the code does instead: once writes once: true into the object, and
\* an on that is given the object afterwards registers a one-shot listener.
C40_OnceWritesIntoTheOptions ==
    /\ \A n \in Names, f \in Fns :
          onceWithOptions(State, <<n>>, UserCb(f), nextId).options.once
    /\ \A m \in Names, g \in Fns :
          Unregistered(m, UserCb(g)) =>
              LET registered == onWithOptions(State, <<m>>, UserCb(g), nextId)
              IN HasLastingListener(registered, m, UserCb(g)) <=> ~options.once

====
